---------------------------- MODULE Spec2Model ----------------------------
(***************************************************************************)
(* Task dashboard: a kanban board whose tasks live either in localStorage  *)
(* (src/app.js, the offline variant) or in GitHub issues                   *)
(* (src/unnamed/part_000 and part_001, the API-backed variants; part_001   *)
(* adds the tips workshop).                                                *)
(*                                                                         *)
(* The model holds the in-memory collection, the DOM columns (cards) and   *)
(* the displayed counts, the external store and the requests in flight.    *)
(***************************************************************************)
EXTENDS Naturals, Sequences, FiniteSets, TLC

VARIABLES
    tasks,      \* app.js: this.tasks
    storage,    \* app.js: localStorage['taskDashboard'] (the saved list)
    now,        \* app.js: the clock read by Date.now()
    issues,     \* part_001: this.issues
    cards,      \* DOM: .tasks[data-status] -> the .task-card elements, in order
    counts,     \* DOM: .column[data-status] .task-count textContent
    server,     \* the issue tracker's store, indexed by issue number
    inflight,   \* asynchronous operations awaiting their apiRequest
    last,       \* the last call made and how it returned
    calls,      \* how many calls were started while calls may overlap
    auth,       \* part_001: the stored token, this.token, the token prompt,
                \* whether the constructor ran and the listeners are registered
    tips,       \* part_001: this.tips, the two lists fetchTips fills
    ui,         \* DOM and dashboard fields of the dialogs: the loader, the
                \* task modal, this.currentTaskId, the task the form was
                \* filled from, the tip it was pre-populated from, the
                \* pending setTimeout of a conversion, the tip modal and
                \* this.currentTipId
    variant,    \* which script the page runs: "offline" (app.js) or "api"
    input,      \* codec: the issue or task handed to the codec
    output      \* codec: what the codec returned

vars == <<tasks, storage, now, issues, cards, counts, server, inflight, last,
          calls, auth, tips, ui, variant, input, output>>

\* what no action of the board changes
fixed == <<variant, input, output, auth, tips>>

view == <<issues, cards, counts>>

-----------------------------------------------------------------------------
(* Bounds of the model *)

\* The clock values the offline variant can read.
MaxClock == 2
\* The records the in-memory collection can hold.
MaxTasks == 2
\* The cards the board can show.
MaxCards == 2
\* The issues the external store can hold.
MaxIssues == 2
\* The asynchronous operations that can be in flight together.
MaxInflight == 2
\* The calls an overlapping run can start.
MaxCalls == 3
\* The characters a description can have.
MaxLen == 3
\* The issues a long-lived repository can hold.
MaxStore == 101

-----------------------------------------------------------------------------
(* Values *)

Statuses == <<"todo", "in-progress", "done">>

StatusSet == {Statuses[i] : i \in 1..Len(Statuses)}

Digit(n) == <<"0", "1", "2", "3", "4", "5", "6", "7", "8", "9">>[n + 1]

\* Number.prototype.toString / Date.now().toString()
RECURSIVE toString(_)
toString(n) == IF n < 10 THEN Digit(n) ELSE toString(n \div 10) \o Digit(n % 10)

\* JavaScript truthiness of a string field ('' is falsy).
Truthy(s) == s # ""

\* a || b on strings
Or(a, b) == IF Truthy(a) THEN a ELSE b

\* Free text (a description, an issue body) is a sequence of tokens: single
\* characters and whole due-date marker lines.  The empty text is <<>>.
NoText == <<>>

\* text || ''
OrText(t) == IF t # NoText THEN t ELSE NoText

\* An empty slot of a sparse array (what this.issues[index] = x leaves behind
\* when index is beyond the end) is the record [hole |-> TRUE].
IsHole(t) == "hole" \in DOMAIN t

\* Array.prototype.findIndex on t => t.id === id (0 when nothing matches;
\* the code's -1)
findIndex(s, id) ==
    IF \E i \in 1..Len(s) : ~IsHole(s[i]) /\ s[i].id = id
    THEN CHOOSE i \in 1..Len(s) :
             /\ ~IsHole(s[i]) /\ s[i].id = id
             /\ \A j \in 1..(i - 1) : IsHole(s[j]) \/ s[j].id # id
    ELSE 0

\* find / findIndex call t.id on every slot up to the match, empty slots
\* included, and so throw a TypeError on an empty slot before the match
findThrows(s, id) ==
    \E k \in 1..Len(s) :
        IsHole(s[k]) /\ (findIndex(s, id) = 0 \/ k < findIndex(s, id))

\* { ...oldTask, ...updates }
Merge(old, updates) ==
    [f \in DOMAIN old \cup DOMAIN updates |->
        IF f \in DOMAIN updates THEN updates[f] ELSE old[f]]

\* updates.status (undefined, hence falsy, when the field is not given)
StatusOf(updates) == IF "status" \in DOMAIN updates THEN updates.status ELSE ""

-----------------------------------------------------------------------------
(* View: rendering of cards and counts *)

NoCards == [s \in StatusSet |-> <<>>]

NoCounts == [s \in StatusSet |-> 0]

\* renderTask: append a card to the column of task.status, if there is one
renderTask(c, task) ==
    IF task.status \in StatusSet
    THEN [c EXCEPT ![task.status] = Append(@, [id |-> task.id, shows |-> task])]
    ELSE c

\* this.issues.forEach(task => this.renderTask(task)): every task, in the
\* order of the list, is appended to the column of its status (forEach skips
\* empty slots)
renderEach(c, list) ==
    [s \in StatusSet |->
        LET shown == SelectSeq(list, LAMBDA t : ~IsHole(t) /\ t.status = s)
        IN  c[s] \o [i \in 1..Len(shown) |-> [id |-> shown[i].id, shows |-> shown[i]]]]

\* a renderAllTasks that does not empty the columns first
renderAllTasksNoClear(list) == renderEach(cards, list)

\* renderAllTasks
renderAllTasks(list) == renderEach(NoCards, list)

\* document.querySelector('.task-card[data-task-id=id]'): the first card in
\* document order, columns laid out todo, in-progress, done
RECURSIVE FirstColumnWith(_, _, _)
FirstColumnWith(c, id, k) ==
    IF k > Len(Statuses) THEN ""
    ELSE IF \E i \in 1..Len(c[Statuses[k]]) : c[Statuses[k]][i].id = id
         THEN Statuses[k]
         ELSE FirstColumnWith(c, id, k + 1)

\* removeTaskElement: the column loses its first card of that id
removeTaskElement(c, id) ==
    LET col == FirstColumnWith(c, id, 1)
        i == findIndex(c[col], id)
    IN  IF col = "" THEN c
        ELSE [c EXCEPT ![col] = SubSeq(@, 1, i - 1) \o SubSeq(@, i + 1, Len(@))]

\* updateTaskElement: rewrite the first card of that id in place
updateTaskElement(c, task) ==
    LET col == FirstColumnWith(c, task.id, 1)
    IN  IF col = "" THEN c
        ELSE LET i == findIndex(c[col], task.id)
             IN  [c EXCEPT ![col][i] = [id |-> task.id, shows |-> task]]

\* the count updateColumnCount computes
CountOf(list, status) ==
    Len(SelectSeq(list, LAMBDA t : ~IsHole(t) /\ t.status = status))

\* updateColumnCount
updateColumnCount(n, list, status) ==
    IF status \in StatusSet
    THEN [n EXCEPT ![status] = CountOf(list, status)]
    ELSE n

\* updateAllCounts
updateAllCounts(n, list) ==
    updateColumnCount(
        updateColumnCount(updateColumnCount(n, list, "todo"), list, "in-progress"),
        list, "done")

-----------------------------------------------------------------------------
(* Inputs *)

\* What the task form can submit (handleFormSubmit's taskData).
TaskData ==
    [title : {"a"}, description : {NoText}, assignee : {""},
     dueDate : {""}, priority : {"medium"}, status : StatusSet]

\* What the form passes to updateTask, and what a drop on a column passes.
Updates == TaskData \cup [status : StatusSet]

\* a page that was opened with a stored token and has set itself up (the
\* offline script and the codec know no token)
SignedIn ==
    [stored |-> TRUE, token |-> TRUE, prompt |-> FALSE, listeners |-> TRUE,
     started |-> TRUE]

\* this.tips before fetchTips has run (the constructor's empty array)
NoTips == [active |-> <<>>, archived |-> <<>>]

\* the dialogs as the page shows them first: no loader, no modal, an empty form
NoUi ==
    [loading |-> FALSE, modal |-> FALSE, currentTaskId |-> "", form |-> "",
     prefill |-> <<>>, timer |-> <<>>, tipModal |-> FALSE, currentTipId |-> ""]

\* showLoading
showLoading(u, show) == [u EXCEPT !.loading = show]

\* closeModal
closeModal(u) == [u EXCEPT !.modal = FALSE, !.currentTaskId = ""]

\* the last call made (or completed) and how it returned
NoCall == [op |-> "none", id |-> "", ret |-> "", shown |-> "none"]

\* shown: what the handler of the call let the user see when it ended
Call(op, id, ret) == [op |-> op, id |-> id, ret |-> ret, shown |-> "none"]

-----------------------------------------------------------------------------
(* The offline variant, src/app.js *)

\* the ids the clock can give
ClockIds == {toString(n) : n \in 1..MaxClock}

\* the properties of a task object, in the order createTask writes them
\* (the spread of updateTask keeps that order)
TaskKeys ==
    <<"id", "title", "description", "assignee", "dueDate", "priority", "status",
      "createdAt">>

\* localStorage.getItem of a key that was never set: null
NoItem == <<>>

\* JSON.stringify of the task list: an array of objects, each object its
\* members "key": value in property order (every value of a task is a
\* string, so none is left out or changed)
stringify(list) ==
    [array |-> [i \in 1..Len(list) |->
                   [j \in 1..Len(TaskKeys) |->
                       [key |-> TaskKeys[j], value |-> list[i][TaskKeys[j]]]]]]

\* JSON.parse of a saved text: the objects are built again from their members
parse(text) ==
    [i \in 1..Len(text.array) |->
        [key \in {text.array[i][j].key : j \in 1..Len(text.array[i])} |->
            LET j == CHOOSE j \in 1..Len(text.array[i]) : text.array[i][j].key = key
            IN  text.array[i][j].value]]

\* saveTasks that writes the list as it was before the call changed it
saveTasksBefore(list) == stringify(tasks)

\* saveTasks: what is written under the key 'taskDashboard'
saveTasks(list) == stringify(list)

\* loadTasks
loadTasks == IF storage = NoItem THEN <<>> ELSE parse(storage)

\* the task createTask builds
NewTask(taskData) ==
    [id          |-> toString(now),
     title       |-> taskData.title,
     description |-> OrText(taskData.description),
     assignee    |-> Or(taskData.assignee, ""),
     dueDate     |-> Or(taskData.dueDate, ""),
     priority    |-> Or(taskData.priority, "medium"),
     status      |-> Or(taskData.status, "todo"),
     createdAt   |-> now]

\* time passes
Tick ==
    /\ now < MaxClock
    /\ now' = now + 1
    /\ UNCHANGED <<fixed, ui, tasks, storage, issues, cards, counts, server, inflight, last, calls>>

\* createTask
createTaskOffline(taskData) ==
    LET task == NewTask(taskData)
        list == Append(tasks, task)
    IN  /\ Len(tasks) < MaxTasks
        /\ Len(cards["todo"]) + Len(cards["in-progress"]) + Len(cards["done"]) < MaxCards
        /\ tasks' = list
        /\ storage' = saveTasks(list)
        /\ cards' = renderTask(cards, task)
        /\ counts' = updateColumnCount(counts, list, task.status)
        /\ last' = Call("createTask", task.id, "ok")
        /\ UNCHANGED <<fixed, ui, now, issues, server, inflight, calls>>

\* updateTask
updateTaskOffline(id, updates) ==
    LET index == findIndex(tasks, id)
    IN  IF index = 0
        THEN /\ last' = Call("updateTask", id, "null")
             /\ UNCHANGED <<fixed, ui, tasks, storage, now, issues, cards, counts, server, inflight,
                            calls>>
        ELSE LET oldStatus == tasks[index].status
                 merged == Merge(tasks[index], updates)
                 list == [tasks EXCEPT ![index] = merged]
             IN  /\ tasks' = list
                 /\ storage' = saveTasks(list)
                 /\ IF Truthy(StatusOf(updates)) /\ StatusOf(updates) # oldStatus
                    THEN /\ cards' = renderTask(removeTaskElement(cards, id), merged)
                         /\ counts' = updateColumnCount(
                                          updateColumnCount(counts, list, oldStatus),
                                          list, updates.status)
                    ELSE /\ cards' = updateTaskElement(cards, merged)
                         /\ counts' = counts
                 /\ last' = Call("updateTask", id, "ok")
                 /\ UNCHANGED <<fixed, ui, now, issues, server, inflight, calls>>

\* deleteTask
deleteTaskOffline(id) ==
    LET index == findIndex(tasks, id)
    IN  IF index = 0
        THEN /\ last' = Call("deleteTask", id, "undefined")
             /\ UNCHANGED <<fixed, ui, tasks, storage, now, issues, cards, counts, server, inflight,
                            calls>>
        ELSE LET status == tasks[index].status
                 list == SelectSeq(tasks, LAMBDA t : t.id # id)
             IN  /\ tasks' = list
                 /\ storage' = saveTasks(list)
                 /\ cards' = removeTaskElement(cards, id)
                 /\ counts' = updateColumnCount(counts, list, status)
                 /\ last' = Call("deleteTask", id, "ok")
                 /\ UNCHANGED <<fixed, ui, now, issues, server, inflight, calls>>

\* the page is loaded again: constructor and init
reloadOffline ==
    /\ tasks' = loadTasks
    /\ cards' = renderAllTasks(loadTasks)
    /\ counts' = updateAllCounts(counts, loadTasks)
    /\ last' = Call("init", "", "ok")
    /\ UNCHANGED <<fixed, ui, storage, now, issues, server, inflight, calls>>

\* the page as first opened, nothing saved yet
InitOffline ==
    /\ variant = "offline"
    /\ tasks = <<>>
    /\ storage = <<>>
    /\ now = 1
    /\ issues = <<>>
    /\ cards = NoCards
    /\ counts = NoCounts
    /\ server = <<>>
    /\ inflight = {}
    /\ tips = NoTips
    /\ ui = NoUi
    /\ last = NoCall
    /\ calls = 0
    /\ auth = SignedIn
    /\ input = <<>>
    /\ output = <<>>

-----------------------------------------------------------------------------
(* Label/body codec, src/unnamed/part_001 *)

\* the dates a due date can be (YYYY-MM-DD)
Dates == {"2024-03-01", "2025-12-31"}

\* the marker line of a due date; "<cal>" stands for the calendar emoji
DueMarker(date) == "<cal> Due: " \o date

IsDueMarker(tok) == \E d \in Dates : tok = DueMarker(d)

Whitespace == {" ", "\n"}

\* String.prototype.trim
RECURSIVE trimStart(_)
trimStart(t) ==
    IF t # NoText /\ Head(t) \in Whitespace THEN trimStart(Tail(t)) ELSE t

RECURSIVE trimEnd(_)
trimEnd(t) ==
    IF t # NoText /\ t[Len(t)] \in Whitespace
    THEN trimEnd(SubSeq(t, 1, Len(t) - 1))
    ELSE t

trim(t) == trimEnd(trimStart(t))

\* body.match(/<cal> Due: (\d{4}-\d{2}-\d{2})/): the place of the first marker
dueDateMatch(body) ==
    IF \E i \in 1..Len(body) : IsDueMarker(body[i])
    THEN CHOOSE i \in 1..Len(body) :
             IsDueMarker(body[i]) /\ \A j \in 1..(i - 1) : ~IsDueMarker(body[j])
    ELSE 0

\* body.replace(/\n?<cal> Due: \d{4}-\d{2}-\d{2}/, '')
stripDueDate(body) ==
    LET i == dueDateMatch(body)
        from == IF i > 1 /\ body[i - 1] = "\n" THEN i - 1 ELSE i
    IN  IF i = 0 THEN body
        ELSE SubSeq(body, 1, from - 1) \o SubSeq(body, i + 1, Len(body))

\* a decoder where the first status label listed wins
statusOfIssueTodoFirst(labels, state) ==
    IF "todo" \in labels THEN "todo"
    ELSE IF "in-progress" \in labels THEN "in-progress"
    ELSE IF "done" \in labels \/ state = "closed" THEN "done"
    ELSE "todo"

\* the status issueToTask reads from the labels and the issue state
statusOfIssue(labels, state) ==
    IF "done" \in labels \/ state = "closed" THEN "done"
    ELSE IF "in-progress" \in labels THEN "in-progress"
    ELSE IF "todo" \in labels THEN "todo"
    ELSE "todo"

\* the assignee issueToTask reads from the labels
assigneeOfIssue(labels) ==
    IF "assigned:sam" \in labels THEN "sam"
    ELSE IF "assigned:milo" \in labels THEN "milo"
    ELSE ""

\* a decoder that looks for priority:low before priority:high
priorityOfIssueLowFirst(labels) ==
    IF "priority:low" \in labels THEN "low"
    ELSE IF "priority:high" \in labels THEN "high"
    ELSE "medium"

\* the priority issueToTask reads from the labels
priorityOfIssue(labels) ==
    IF "priority:high" \in labels THEN "high"
    ELSE IF "priority:low" \in labels THEN "low"
    ELSE IF "priority:medium" \in labels THEN "medium"
    ELSE "medium"

\* issueToTask
issueToTask(issue) ==
    LET m == dueDateMatch(issue.body)
    IN  [id          |-> toString(issue.number),
         issueNumber |-> issue.number,
         title       |-> issue.title,
         description |-> trim(stripDueDate(issue.body)),
         assignee    |-> assigneeOfIssue(issue.labels),
         dueDate     |-> IF m = 0 THEN ""
                         ELSE CHOOSE d \in Dates : DueMarker(d) = issue.body[m],
         priority    |-> priorityOfIssue(issue.labels),
         status      |-> statusOfIssue(issue.labels, issue.state),
         createdAt   |-> issue.number,
         url         |-> issue.number]

\* an encoder that puts the marker on the line after the description
taskToIssueBodyNoBlankLine(task) ==
    IF Truthy(task.dueDate)
    THEN OrText(task.description) \o <<"\n", DueMarker(task.dueDate)>>
    ELSE OrText(task.description)

\* taskToIssueBody
taskToIssueBody(task) ==
    IF Truthy(task.dueDate)
    THEN OrText(task.description) \o <<"\n", "\n", DueMarker(task.dueDate)>>
    ELSE OrText(task.description)

\* an encoder that forgets the assignee label
getLabelsWithoutAssignee(task) ==
    (IF Truthy(task.status) THEN {task.status} ELSE {})
    \cup (IF Truthy(task.priority) THEN {"priority:" \o task.priority} ELSE {})

\* getLabelsForTask
getLabelsForTask(task) ==
    (IF Truthy(task.status) THEN {task.status} ELSE {})
    \cup (IF Truthy(task.assignee) THEN {"assigned:" \o task.assignee} ELSE {})
    \cup (IF Truthy(task.priority) THEN {"priority:" \o task.priority} ELSE {})

-----------------------------------------------------------------------------
(* Tip codec, src/unnamed/part_001: handleTipFormSubmit builds the body,      *)
(* issueToTip reads it back.  A text is a sequence of characters in which a   *)
(* URL and the complexity marker are single elements.                         *)

\* the lines a URL pattern matches
Urls == {"http://a", "https://b"}

\* the values the complexity field can hold besides the empty one
Complexities == {"3", "13"}

\* the complexity line; "<chart>" stands for the chart emoji
ComplexityMarker(c) == "<chart> Complexity: " \o c \o " points"

IsComplexityMarker(tok) == \E c \in Complexities : tok = ComplexityMarker(c)

\* what convertTipToTask appends to the description to link the tip
ConvertedFrom(url) == "*Converted from TIP: " \o toString(url) \o "*"

\* String.prototype.split('\n'): cut at the first line break, if there is one
RECURSIVE split(_)
split(t) ==
    LET i == IF \E k \in 1..Len(t) : t[k] = "\n"
             THEN CHOOSE k \in 1..Len(t) :
                      t[k] = "\n" /\ \A j \in 1..(k - 1) : t[j] # "\n"
             ELSE 0
    IN  IF i = 0 THEN <<t>>
        ELSE <<SubSeq(t, 1, i - 1)>> \o split(SubSeq(t, i + 1, Len(t)))

\* Array.prototype.join('\n')
RECURSIVE join(_)
join(lines) ==
    IF lines = <<>> THEN NoText
    ELSE IF Len(lines) = 1 THEN lines[1]
    ELSE lines[1] \o <<"\n">> \o join(Tail(lines))

\* body.match(/<chart> Complexity: (\d+) points?/): the place of the first marker
complexityMatch(body) ==
    IF \E i \in 1..Len(body) : IsComplexityMarker(body[i])
    THEN CHOOSE i \in 1..Len(body) :
             IsComplexityMarker(body[i])
             /\ \A j \in 1..(i - 1) : ~IsComplexityMarker(body[j])
    ELSE 0

\* body.replace(/<chart> Complexity: \d+ points?\n?/, '')
stripComplexity(body) ==
    LET i == complexityMatch(body)
        to == IF i < Len(body) /\ body[i + 1] = "\n" THEN i + 1 ELSE i
    IN  IF i = 0 THEN body
        ELSE SubSeq(body, 1, i - 1) \o SubSeq(body, to + 1, Len(body))

\* .replace(/^https?:\/\/.+$/gm, ''): every URL line is emptied
stripUrlLines(body) ==
    LET lines == split(body)
    IN  join([k \in 1..Len(lines) |->
                 \* /^https?:\/\/.+$/gm matches the line: no white space may come first
                 IF lines[k] # NoText /\ Head(lines[k]) \in Urls THEN NoText
                 ELSE lines[k]])

\* the reference lines issueToTip extracts, in encounter order
referencesOf(body) ==
    LET \* line.trim().match(/^https?:\/\//)
        kept == SelectSeq(split(body),
                          LAMBDA line : trim(line) # NoText /\ Head(trim(line)) \in Urls)
    IN  [k \in 1..Len(kept) |-> trim(kept[k])]

\* issueToTip
issueToTip(issue) ==
    LET m == complexityMatch(issue.body)
    IN  [id          |-> toString(issue.number),
         issueNumber |-> issue.number,
         title       |-> issue.title,
         description |-> trim(stripUrlLines(stripComplexity(issue.body))),
         complexity  |-> IF m = 0 THEN ""
                         ELSE CHOOSE c \in Complexities :
                                  ComplexityMarker(c) = issue.body[m],
         references  |-> referencesOf(issue.body),
         createdAt   |-> issue.number,
         url         |-> issue.number]

\* handleTipFormSubmit: the values read from the tip form
tipDataOf(form) ==
    LET lines == split(form.references)
        trimmed == [k \in 1..Len(lines) |-> trim(lines[k])]
    IN  [title       |-> form.title,
         description |-> trim(form.description),
         complexity  |-> form.complexity,
         references  |-> SelectSeq(trimmed, LAMBDA l : Len(l) > 0)]

\* handleTipFormSubmit: the body built from the values
tipBody(tipData) ==
    LET withComplexity ==
            IF Truthy(tipData.complexity)
            THEN <<ComplexityMarker(tipData.complexity), "\n", "\n">>
                     \o tipData.description
            ELSE tipData.description
    IN  IF Len(tipData.references) > 0
        THEN withComplexity \o <<"\n", "\n">> \o join(tipData.references)
        ELSE withComplexity

-----------------------------------------------------------------------------
(* The issue tracker (the collaborator of spec section 6) *)

\* POST /issues: the issue the tracker creates
createIssue(req) ==
    [number       |-> Len(server) + 1,
     title        |-> req.title,
     body         |-> req.body,
     labels       |-> req.labels,
     state        |-> "open",
     pull_request |-> FALSE]

\* PATCH /issues/:number: the fields sent replace the issue's
patchIssue(issue, req) ==
    [f \in DOMAIN issue |-> IF f \in DOMAIN req THEN req[f] ELSE issue[f]]

\* a list in the tracker's default order, newest first
newestFirst(store) == [i \in 1..Len(store) |-> store[Len(store) + 1 - i]]

\* per_page=100: the most a query returns
PerPage == 100

\* the first page of a list; fetchIssues asks for no other
firstPage(list) == SubSeq(list, 1, IF Len(list) < PerPage THEN Len(list) ELSE PerPage)

\* GET /issues?state=open&per_page=100
listOpen ==
    firstPage(SelectSeq(newestFirst(server), LAMBDA i : i.state = "open"))

\* GET /issues?state=closed&labels=done&per_page=100
listClosedDone ==
    firstPage(SelectSeq(newestFirst(server),
                        LAMBDA i : i.state = "closed" /\ "done" \in i.labels))

\* the statuses a failed request can carry
Failures == {"401", "500"}

-----------------------------------------------------------------------------
(* The API-backed variant, src/unnamed/part_001 (part_000 is the same code    *)
(* without the tips workshop)                                                 *)

\* the ids an issue number can give
IssueIds == {toString(n) : n \in 1..MaxIssues}

\* one more call was started (the count stops at MaxCalls)
Counted == calls' = IF calls < MaxCalls THEN calls + 1 ELSE calls

FreeSlot == CHOOSE k \in 1..MaxInflight : \A r \in inflight : r.k # k

Idle == inflight = {}

PendingCreates == {r \in inflight : r.op = "createTask" /\ r.resp = "pending"}

\* apiRequest: response.ok, without which apiRequest throws
responseOk(r) == r.resp = "200"

\* the request createTask sends
createRequest(taskData) ==
    [title  |-> taskData.title,
     body   |-> taskToIssueBody(taskData),
     labels |-> getLabelsForTask(taskData)]

\* the handler a call was made from: the task form submits a whole record,
\* a drop only a status
Handler(r) ==
    IF r.op = "createTask" THEN "handleFormSubmit"
    ELSE IF r.op = "updateTask"
         THEN (IF "title" \in DOMAIN r.updates THEN "handleFormSubmit" ELSE "drop")
    ELSE IF r.op = "deleteTask" THEN "deleteTask button"
    ELSE "refreshBtn"

\* the call has thrown: handleFormSubmit awaits it inside try/catch and calls
\* showError, in the other handlers the rejection is unhandled
Thrown(r, op, id) ==
    [Call(op, id, "error") EXCEPT
        !.shown = IF Handler(r) = "handleFormSubmit" THEN "alert" ELSE "none"]

\* whether updateTask is called by the task form (a whole record) or by a
\* drop (a status)
FromForm(updates) == "title" \in DOMAIN updates

\* the handler has run to its end: the form hides the loader and closes the
\* modal whatever happened; the drop, the delete button and the refresh
\* button do so only when the call they await did not throw
handlerEnds(u, handler, threw) ==
    IF handler = "handleFormSubmit" THEN closeModal(showLoading(u, FALSE))
    ELSE IF threw THEN u
    ELSE IF handler = "deleteTask button" THEN closeModal(showLoading(u, FALSE))
    ELSE showLoading(u, FALSE)

\* createTask, up to its await
createTask(taskData) ==
    /\ Cardinality(inflight) < MaxInflight
    /\ Len(server) + Cardinality(PendingCreates) < MaxIssues
    /\ inflight' = inflight \cup
           {[k      |-> FreeSlot,
             op     |-> "createTask",
             req    |-> createRequest(taskData),
             resp   |-> "pending",
             result |-> <<>>]}
    /\ last' = Call("createTask", "", "pending")
    /\ Counted
    /\ ui' = showLoading(ui, TRUE)
    /\ UNCHANGED <<fixed, tasks, storage, now, issues, cards, counts, server>>

\* createTask, after its await
createTaskDone(r) ==
    /\ r.op = "createTask"
    /\ r.resp # "pending"
    /\ inflight' = inflight \ {r}
    /\ IF responseOk(r)
       THEN LET task == issueToTask(r.result[1])
                list == Append(issues, task)
            IN  /\ issues' = list
                /\ cards' = renderTask(cards, task)
                /\ counts' = updateColumnCount(counts, list, task.status)
                /\ last' = Call("createTask", task.id, "ok")
       ELSE /\ last' = Thrown(r, "createTask", "")
            /\ UNCHANGED <<issues, cards, counts>>
    /\ ui' = handlerEnds(ui, Handler(r), ~responseOk(r))
    /\ UNCHANGED <<fixed, tasks, storage, now, server, calls>>

\* this.issues[index] = newTask
writeAt(list, index, task) ==
    [i \in 1..(IF index > Len(list) THEN index ELSE Len(list)) |->
        IF i = index THEN task
        ELSE IF i <= Len(list) THEN list[i]
        ELSE [hole |-> TRUE]]

\* a call that returns, or throws, before it awaits anything.  The task
\* form and the delete button have shown the loader by then; the drop
\* handler looks the task up itself before it shows the loader, so a drop
\* does not get this far
returns(op, id, ret, handler) ==
    /\ last' = Call(op, id, ret)
    /\ Counted
    /\ ui' = IF handler = "drop" THEN ui
             ELSE handlerEnds(showLoading(ui, TRUE), handler, ret = "TypeError")
    /\ UNCHANGED <<fixed, tasks, storage, now, issues, cards, counts, server,
                   inflight>>

\* an update that never closes the issue
stateAlwaysOpen(status) == "open"

\* the state updateTask sends: closed when the task is done
stateFor(status) == IF status = "done" THEN "closed" ELSE "open"

\* an update that sends the status label alone
updateRequestStatusOnly(newTask) ==
    [title  |-> newTask.title,
     body   |-> taskToIssueBody(newTask),
     labels |-> {newTask.status},
     state  |-> stateFor(newTask.status)]

\* the request updateTask sends
updateRequest(newTask) ==
    [title  |-> newTask.title,
     body   |-> taskToIssueBody(newTask),
     labels |-> getLabelsForTask(newTask),
     state  |-> stateFor(newTask.status)]

\* updateTask, up to its await
updateTask(id, updates) ==
    IF findThrows(issues, id)
    THEN returns("updateTask", id, "TypeError",
                 IF FromForm(updates) THEN "handleFormSubmit" ELSE "drop")
    ELSE LET index == findIndex(issues, id)
         IN  IF index = 0
             THEN returns("updateTask", id, "null",
                          IF FromForm(updates) THEN "handleFormSubmit" ELSE "drop")
             ELSE LET oldTask == issues[index]
                      newTask == Merge(oldTask, updates)
                  IN  /\ Cardinality(inflight) < MaxInflight
                      /\ inflight' = inflight \cup
                             {[k       |-> FreeSlot,
                               op      |-> "updateTask",
                               id      |-> id,
                               index   |-> index,
                               oldTask |-> oldTask,
                               newTask |-> newTask,
                               updates |-> updates,
                               number  |-> oldTask.issueNumber,
                               req     |-> updateRequest(newTask),
                               resp    |-> "pending",
                               result  |-> <<>>]}
                      /\ last' = Call("updateTask", id, "pending")
                      /\ Counted
                      /\ ui' = showLoading(ui, TRUE)
                      /\ UNCHANGED <<fixed, tasks, storage, now, issues, cards,
                                     counts, server>>

\* updateTask after its await: the commit and the re-render
updateTaskCommit(r) ==
    LET list == writeAt(issues, r.index, r.newTask)
    IN  /\ issues' = list
        /\ IF Truthy(StatusOf(r.updates)) /\ StatusOf(r.updates) # r.oldTask.status
           THEN /\ cards' = renderTask(removeTaskElement(cards, r.id), r.newTask)
                /\ counts' = updateColumnCount(
                                 updateColumnCount(counts, list, r.oldTask.status),
                                 list, r.updates.status)
           ELSE /\ cards' = updateTaskElement(cards, r.newTask)
                /\ counts' = counts
        /\ last' = Call("updateTask", r.id, "ok")

\* updateTask that commits although its request was rejected
updateTaskDoneUnchecked(r) ==
    /\ r.op = "updateTask"
    /\ r.resp # "pending"
    /\ inflight' = inflight \ {r}
    /\ updateTaskCommit(r)
    /\ ui' = handlerEnds(ui, Handler(r), ~responseOk(r))
    /\ UNCHANGED <<fixed, tasks, storage, now, server, calls>>

\* updateTask, after its await
updateTaskDone(r) ==
    /\ r.op = "updateTask"
    /\ r.resp # "pending"
    /\ inflight' = inflight \ {r}
    /\ IF responseOk(r)
       THEN updateTaskCommit(r)
       ELSE /\ last' = Thrown(r, "updateTask", r.id)
            /\ UNCHANGED <<issues, cards, counts>>
    /\ ui' = handlerEnds(ui, Handler(r), ~responseOk(r))
    /\ UNCHANGED <<fixed, tasks, storage, now, server, calls>>

\* a delete request that adds the label and keeps the others
deleteRequestKeepingLabels(task) ==
    [state |-> "closed", labels |-> getLabelsForTask(task) \cup {"deleted"}]

\* the request deleteTask sends
deleteRequest(task) == [state |-> "closed", labels |-> {"deleted"}]

\* deleteTask from its request to its await
deleteTaskSend(id, index) ==
    /\ Cardinality(inflight) < MaxInflight
    /\ inflight' = inflight \cup
           {[k      |-> FreeSlot,
             op     |-> "deleteTask",
             id     |-> id,
             task   |-> issues[index],
             number |-> issues[index].issueNumber,
             req    |-> deleteRequest(issues[index]),
             resp   |-> "pending",
             result |-> <<>>]}
    /\ last' = Call("deleteTask", id, "pending")
    /\ Counted
    /\ ui' = showLoading(ui, TRUE)
    /\ UNCHANGED <<fixed, tasks, storage, now, issues, cards, counts, server>>

\* deleteTask without its early return: task.issueNumber of undefined throws
deleteTaskUnguarded(id) ==
    LET index == findIndex(issues, id)
    IN  IF findThrows(issues, id) \/ index = 0
        THEN returns("deleteTask", id, "TypeError", "deleteTask button")
        ELSE deleteTaskSend(id, index)

\* deleteTask, up to its await
deleteTask(id) ==
    IF findThrows(issues, id)
    THEN returns("deleteTask", id, "TypeError", "deleteTask button")
    ELSE LET index == findIndex(issues, id)
         IN  IF index = 0
             THEN returns("deleteTask", id, "undefined", "deleteTask button")
             ELSE deleteTaskSend(id, index)

\* deleteTask after its await: the local removal
deleteTaskCommit(r) ==
    LET status == r.task.status
        list == SelectSeq(issues, LAMBDA t : ~IsHole(t) /\ t.id # r.id)
    IN  /\ issues' = list
        /\ cards' = removeTaskElement(cards, r.id)
        /\ counts' = updateColumnCount(counts, list, status)
        /\ last' = Call("deleteTask", r.id, "ok")

\* deleteTask that removes locally although its request was rejected
deleteTaskDoneUnchecked(r) ==
    /\ r.op = "deleteTask"
    /\ r.resp # "pending"
    /\ inflight' = inflight \ {r}
    /\ deleteTaskCommit(r)
    /\ ui' = handlerEnds(ui, Handler(r), ~responseOk(r))
    /\ UNCHANGED <<fixed, tasks, storage, now, server, calls>>

\* deleteTask, after its await
deleteTaskDone(r) ==
    /\ r.op = "deleteTask"
    /\ r.resp # "pending"
    /\ inflight' = inflight \ {r}
    /\ IF responseOk(r)
       THEN deleteTaskCommit(r)
       ELSE /\ last' = Thrown(r, "deleteTask", r.id)
            /\ UNCHANGED <<issues, cards, counts>>
    /\ ui' = handlerEnds(ui, Handler(r), ~responseOk(r))
    /\ UNCHANGED <<fixed, tasks, storage, now, server, calls>>

\* one of the two queries of fetchIssues, not yet answered
Query == [resp |-> "pending", result |-> <<>>]

\* the refresh button's handler (and init's first load), up to fetchIssues' await
refresh ==
    /\ Cardinality(inflight) < MaxInflight
    /\ inflight' = inflight \cup
           {[k |-> FreeSlot, op |-> "refresh", open |-> Query, closed |-> Query]}
    /\ last' = Call("refresh", "", "pending")
    /\ Counted
    /\ ui' = showLoading(ui, TRUE)
    /\ UNCHANGED <<fixed, tasks, storage, now, issues, cards, counts, server>>

\* a fetch that decodes every item it is given
decodeFetchedAll(fetched) == [i \in 1..Len(fetched) |-> issueToTask(fetched[i])]

\* issue => !issue.pull_request, then issueToTask
decodeFetched(fetched) ==
    LET kept == SelectSeq(fetched, LAMBDA i : ~i.pull_request)
    IN  [i \in 1..Len(kept) |-> issueToTask(kept[i])]

\* the handler after fetchIssues' await: Promise.all rejects on the first failure
refreshDone(r) ==
    /\ r.op = "refresh"
    /\ \/ r.open.resp \in Failures
       \/ r.closed.resp \in Failures
       \/ r.open.resp = "200" /\ r.closed.resp = "200"
    /\ inflight' = inflight \ {r}
    /\ IF r.open.resp = "200" /\ r.closed.resp = "200"
       THEN LET list == decodeFetched(r.open.result \o r.closed.result)
            IN  /\ issues' = list
                /\ cards' = renderAllTasks(list)
                /\ counts' = updateAllCounts(counts, list)
                /\ last' = Call("refresh", "", "ok")
       ELSE /\ last' = Thrown(r, "refresh", "")
            /\ UNCHANGED <<issues, cards, counts>>
    /\ ui' = handlerEnds(ui, Handler(r), ~(r.open.resp = "200" /\ r.closed.resp = "200"))
    /\ UNCHANGED <<fixed, tasks, storage, now, server, calls>>

\* the tracker answers a request: it applies it, or it rejects it
answer(r) ==
    /\ r.op \in {"createTask", "updateTask", "deleteTask"}
    /\ r.resp = "pending"
    /\ \/ /\ r.op = "createTask"
          /\ server' = Append(server, createIssue(r.req))
          /\ inflight' = (inflight \ {r}) \cup
                 {[r EXCEPT !.resp = "200", !.result = <<createIssue(r.req)>>]}
       \/ /\ r.op \in {"updateTask", "deleteTask"}
          /\ server' = [server EXCEPT ![r.number] = patchIssue(@, r.req)]
          /\ inflight' = (inflight \ {r}) \cup {[r EXCEPT !.resp = "200"]}
       \/ /\ \E status \in Failures :
                 inflight' = (inflight \ {r}) \cup {[r EXCEPT !.resp = status]}
          /\ server' = server
    /\ UNCHANGED <<fixed, ui, tasks, storage, now, issues, cards, counts, last, calls>>

\* the tracker answers one of the two queries of a refresh
answerQuery(r) ==
    /\ r.op \in {"refresh", "init"}
    /\ \/ /\ r.open.resp = "pending"
          /\ \/ inflight' = (inflight \ {r}) \cup
                    {[r EXCEPT !.open = [resp |-> "200", result |-> listOpen]]}
             \/ \E status \in Failures :
                    inflight' = (inflight \ {r}) \cup
                        {[r EXCEPT !.open = [resp |-> status, result |-> <<>>]]}
       \/ /\ r.closed.resp = "pending"
          /\ \/ inflight' = (inflight \ {r}) \cup
                    {[r EXCEPT !.closed = [resp |-> "200", result |-> listClosedDone]]}
             \/ \E status \in Failures :
                    inflight' = (inflight \ {r}) \cup
                        {[r EXCEPT !.closed = [resp |-> status, result |-> <<>>]]}
    /\ UNCHANGED <<fixed, ui, tasks, storage, now, issues, cards, counts, server, last,
                   calls>>

\* what the tracker can hold before the page is opened: nothing, a pull
\* request, a pull request that was merged and labelled done, or a task
\* somebody filed before
InitialStores ==
    LET PullRequest ==
            [number |-> 1, title |-> "a", body |-> NoText, labels |-> {},
             state |-> "open", pull_request |-> TRUE]
        MergedPullRequest ==
            [number |-> 1, title |-> "a", body |-> NoText, labels |-> {"done"},
             state |-> "closed", pull_request |-> TRUE]
        ExistingTask ==
            [number |-> 1, title |-> "b",
             body |-> <<"x", "\n", "\n", DueMarker("2024-03-01")>>,
             labels |-> {"in-progress", "assigned:sam", "priority:high"},
             state |-> "open", pull_request |-> FALSE]
    IN  {<<>>, <<PullRequest>>, <<MergedPullRequest>>, <<ExistingTask>>}

\* the page as first opened with a token: the constructor has run
InitApi ==
    /\ variant = "api"
    /\ input = <<>>
    /\ output = <<>>
    /\ tasks = <<>>
    /\ storage = <<>>
    /\ now = 1
    /\ issues = <<>>
    /\ cards = NoCards
    /\ counts = NoCounts
    /\ server \in InitialStores
    /\ inflight = {}
    /\ tips = NoTips
    /\ ui = NoUi
    /\ last = NoCall
    /\ calls = 0
    /\ auth = SignedIn

\* the tracker's and the continuations' steps
Completion ==
    \/ \E r \in inflight : answer(r)
    \/ \E r \in inflight : answerQuery(r)
    \/ \E r \in inflight : createTaskDone(r)
    \/ \E r \in inflight : updateTaskDone(r)
    \/ \E r \in inflight : deleteTaskDone(r)
    \/ \E r \in inflight : refreshDone(r)

\* calls may overlap: a call can start while others await
Next ==
    \/ calls < MaxCalls /\ \E d \in TaskData : createTask(d)
    \/ calls < MaxCalls /\ \E id \in IssueIds, u \in Updates : updateTask(id, u)
    \/ calls < MaxCalls /\ \E id \in IssueIds : deleteTask(id)
    \/ calls < MaxCalls /\ refresh
    \/ Completion

Spec == InitApi /\ [][Next]_vars

\* either variant, every call running to completion before the next starts
NextSeq ==
    \/ variant = "api" /\ Idle /\ \E d \in TaskData : createTask(d)
    \/ variant = "api" /\ Idle /\ \E id \in IssueIds, u \in Updates : updateTask(id, u)
    \/ variant = "api" /\ Idle /\ \E id \in IssueIds : deleteTask(id)
    \/ variant = "api" /\ Idle /\ refresh
    \/ Completion
    \/ variant = "offline" /\ Tick
    \/ variant = "offline" /\ \E d \in TaskData : createTaskOffline(d)
    \/ variant = "offline" /\ \E id \in ClockIds, u \in Updates : updateTaskOffline(id, u)
    \/ variant = "offline" /\ \E id \in ClockIds : deleteTaskOffline(id)
    \/ variant = "offline" /\ reloadOffline

SpecSeq == (InitApi \/ InitOffline) /\ [][NextSeq]_vars

\* the same, where every request is answered in the end and the code that
\* awaits the answer then runs; the user is not obliged to do anything
SpecSeqFair == SpecSeq /\ WF_vars(Completion)

\* the descriptions a record can hold, texts of up to MaxLen characters: the
\* form trims what the user typed and issueToTask trims what it decoded
Descriptions ==
    {t \in UNION {[1..n -> {"x", " ", "\n"}] : n \in 0..MaxLen} : trim(t) = t}

\* a description, a blank line and the marker line of a due date
MarkerBody(description, date) == description \o <<"\n", "\n", DueMarker(date)>>

\* the issues handed to issueToTask, with the bodies and the labels an issue
\* of the repository can have
CodecIssues ==
    LET CodecBodies ==
            Descriptions \cup {MarkerBody(t, d) : t \in Descriptions, d \in Dates}
        CodecLabels ==
            {"todo", "in-progress", "done", "assigned:sam", "assigned:milo",
             "priority:high", "priority:low", "priority:medium", "deleted"}
    IN  [number : {1}, title : {"a"}, body : CodecBodies, labels : SUBSET CodecLabels,
         state : {"open", "closed"}, pull_request : {FALSE}]

\* issueToTask applied to an issue
decode ==
    /\ variant = "codec"
    /\ output = <<>>
    /\ output' = issueToTask(input)
    /\ UNCHANGED <<tips, ui, variant, input, auth, tasks, storage, now, issues, cards, counts,
                   server, inflight, last, calls>>

\* taskToIssueBody applied to the decoded record
reencode ==
    /\ variant = "codec"
    /\ output # <<>>
    /\ "body" \notin DOMAIN output
    /\ output' = Merge(output, [body |-> taskToIssueBody(output)])
    /\ UNCHANGED <<tips, ui, variant, input, auth, tasks, storage, now, issues, cards, counts,
                   server, inflight, last, calls>>

InitCodec ==
    /\ variant = "codec"
    /\ input \in CodecIssues
    /\ output = <<>>
    /\ tasks = <<>>
    /\ storage = <<>>
    /\ now = 1
    /\ issues = <<>>
    /\ cards = NoCards
    /\ counts = NoCounts
    /\ server = <<>>
    /\ inflight = {}
    /\ tips = NoTips
    /\ ui = NoUi
    /\ last = NoCall
    /\ calls = 0
    /\ auth = SignedIn

NextCodec == decode \/ reencode

SpecCodec == InitCodec /\ [][NextCodec]_vars

\* the page as the browser has just loaded it, before the constructor runs
FreshPage ==
    [stored |-> FALSE, token |-> FALSE, prompt |-> FALSE, listeners |-> FALSE,
     started |-> FALSE]

\* the statuses init takes for an invalid or expired token
AuthFailures == {"401", "403"}

\* an init that does not look at this.token
initNoTokenCheck(a) ==
    /\ ui' = showLoading(ui, TRUE)
    /\ auth' = [a EXCEPT !.listeners = TRUE]
    /\ inflight' = inflight \cup
           {[k |-> FreeSlot, op |-> "init", open |-> Query, closed |-> Query]}
    /\ last' = Call("init", "", "pending")

\* init up to its await, a being the token state its caller has set: without
\* a token it shows the prompt and returns, with one it registers the
\* listeners and starts the first load
init(a) ==
    IF ~a.token
    THEN /\ auth' = [a EXCEPT !.prompt = TRUE]
         /\ inflight' = inflight
         /\ last' = Call("init", "", "undefined")
         /\ ui' = ui
    ELSE /\ ui' = showLoading(ui, TRUE)
         /\ auth' = [a EXCEPT !.listeners = TRUE]
         /\ inflight' = inflight \cup
                {[k |-> FreeSlot, op |-> "init", open |-> Query, closed |-> Query]}
         /\ last' = Call("init", "", "pending")

\* the constructor: it reads the stored token and calls init
construct ==
    /\ ~auth.started
    /\ init([auth EXCEPT !.started = TRUE, !.token = auth.stored])
    /\ UNCHANGED <<tips, variant, input, output, tasks, storage, now, issues, cards,
                   counts, server, calls>>

\* the token form is submitted with a token: it is stored and init runs again
tokenSubmit ==
    /\ auth.started
    /\ auth.prompt
    /\ Idle
    /\ init([auth EXCEPT !.stored = TRUE, !.token = TRUE, !.prompt = FALSE])
    /\ UNCHANGED <<tips, variant, input, output, tasks, storage, now, issues, cards,
                   counts, server, calls>>

\* init after its await: the first load has ended
initDone(r) ==
    /\ r.op = "init"
    /\ \/ r.open.resp \in Failures
       \/ r.closed.resp \in Failures
       \/ r.open.resp = "200" /\ r.closed.resp = "200"
    /\ inflight' = inflight \ {r}
    /\ IF r.open.resp = "200" /\ r.closed.resp = "200"
       THEN LET list == decodeFetched(r.open.result \o r.closed.result)
            IN  /\ issues' = list
                /\ cards' = renderAllTasks(list)
                /\ counts' = updateAllCounts(counts, list)
                /\ last' = Call("init", "", "ok")
                /\ auth' = auth
       ELSE /\ \E status \in {r.open.resp, r.closed.resp} \cap Failures :
                  IF status \in AuthFailures
                  THEN /\ auth' = [auth EXCEPT !.stored = FALSE, !.prompt = TRUE]
                       /\ last' = [Call("init", "", "error") EXCEPT !.shown = "prompt"]
                  ELSE /\ auth' = auth
                       /\ last' = [Call("init", "", "error") EXCEPT !.shown = "alert"]
            /\ UNCHANGED <<issues, cards, counts>>
    /\ ui' = showLoading(ui, FALSE)
    /\ UNCHANGED <<tips, variant, input, output, tasks, storage, now, server, calls>>

\* the logout button: the stored token is removed and the page reloads
logout ==
    /\ auth.listeners
    /\ Idle
    /\ auth' = FreshPage
    /\ issues' = <<>>
    /\ cards' = NoCards
    /\ counts' = NoCounts
    /\ inflight' = {}
    /\ last' = NoCall
    /\ calls' = 0
    /\ tips' = NoTips
    /\ ui' = NoUi
    /\ UNCHANGED <<variant, input, output, tasks, storage, now, server>>

\* the page as the browser loads it, with or without a stored token
InitAuth ==
    /\ variant = "api"
    /\ input = <<>>
    /\ output = <<>>
    /\ tasks = <<>>
    /\ storage = <<>>
    /\ now = 1
    /\ issues = <<>>
    /\ cards = NoCards
    /\ counts = NoCounts
    /\ server \in InitialStores
    /\ inflight = {}
    /\ tips = NoTips
    /\ ui = NoUi
    /\ last = NoCall
    /\ calls = 0
    /\ \E stored \in BOOLEAN : auth = [FreshPage EXCEPT !.stored = stored]

\* the page from its load on, every call running to completion before the
\* next; the board's handlers exist once init has registered them
NextAuth ==
    \/ construct
    \/ tokenSubmit
    \/ logout
    \/ \E r \in inflight : initDone(r)
    \/ auth.listeners /\ Idle /\ \E d \in TaskData : createTask(d)
    \/ auth.listeners /\ Idle /\ \E id \in IssueIds, u \in Updates : updateTask(id, u)
    \/ auth.listeners /\ Idle /\ \E id \in IssueIds : deleteTask(id)
    \/ auth.listeners /\ Idle /\ refresh
    \/ Completion

SpecAuth == InitAuth /\ [][NextAuth]_vars

\* the issue the tracker holds once createTask has sent the record
createdFrom(task) == createIssue(createRequest(task))

\* a record is encoded, stored by the tracker and decoded again
roundTrip ==
    /\ variant = "roundtrip"
    /\ output = <<>>
    /\ \E issue \in {createdFrom(input),
                      patchIssue(createdFrom(input), updateRequest(input))} :
           output' = issueToTask(issue)
    /\ UNCHANGED <<tips, ui, variant, input, auth, tasks, storage, now, issues, cards, counts,
                   server, inflight, last, calls>>

InitRoundTrip ==
    /\ variant = "roundtrip"
    \* the records handed to the encoder: what the task form can hold
    /\ input \in [title : {"a"}, description : Descriptions,
                  assignee : {"", "sam", "milo"}, dueDate : {""} \cup Dates,
                  priority : {"low", "medium", "high"}, status : StatusSet]
    /\ output = <<>>
    /\ tasks = <<>>
    /\ storage = <<>>
    /\ now = 1
    /\ issues = <<>>
    /\ cards = NoCards
    /\ counts = NoCounts
    /\ server = <<>>
    /\ inflight = {}
    /\ tips = NoTips
    /\ ui = NoUi
    /\ last = NoCall
    /\ calls = 0
    /\ auth = SignedIn

NextRoundTrip == roundTrip

SpecRoundTrip == InitRoundTrip /\ [][NextRoundTrip]_vars

\* the sizes of repository that matter to a page of PerPage items
StoreSizes == {0, 1, PerPage, MaxStore}

\* the page opened on a repository that has been in use for long
InitPages ==
    /\ variant = "api"
    /\ input = <<>>
    /\ output = <<>>
    /\ tasks = <<>>
    /\ storage = <<>>
    /\ now = 1
    /\ issues = <<>>
    /\ cards = NoCards
    /\ counts = NoCounts
    /\ \E n \in StoreSizes, state \in {"open", "closed"} :
           \* a repository of n tasks, all open or all closed as done
           server = [i \in 1..n |->
                        [number |-> i, title |-> "a", body |-> NoText,
                         labels |-> {IF state = "closed" THEN "done" ELSE "todo"},
                         state |-> state, pull_request |-> FALSE]]
    /\ inflight = {}
    /\ tips = NoTips
    /\ ui = NoUi
    /\ last = NoCall
    /\ calls = 0
    /\ auth = SignedIn

\* the board is loaded and refreshed, one refresh at a time
NextPages ==
    \/ Idle /\ refresh
    \/ \E r \in inflight : answerQuery(r)
    \/ \E r \in inflight : refreshDone(r)

SpecPages == InitPages /\ [][NextPages]_vars

-----------------------------------------------------------------------------
(* Overlapping updates: the board is loaded once, then cards are dropped on  *)
(* columns while earlier updates still await their response                   *)

\* the drop handler: a card dropped on a column other than its own
drop(taskId, newStatus) ==
    /\ ~findThrows(issues, taskId)
    /\ findIndex(issues, taskId) # 0
    /\ issues[findIndex(issues, taskId)].status # newStatus
    /\ updateTask(taskId, [status |-> newStatus])

NextOverlap ==
    \/ calls = 0 /\ refresh
    \/ calls > 0 /\ calls < MaxCalls
          /\ \E id \in IssueIds, status \in StatusSet : drop(id, status)
    \/ \E r \in inflight : answer(r)
    \/ \E r \in inflight : answerQuery(r)
    \/ \E r \in inflight : updateTaskDone(r)
    \/ \E r \in inflight : refreshDone(r)

SpecOverlap == InitApi /\ [][NextOverlap]_vars

-----------------------------------------------------------------------------
(* The tips workshop, src/unnamed/part_001 *)

\* what the workshop never changes
page == <<variant, input, output, auth, tasks, storage, now>>

\* [...this.tips.active, ...this.tips.archived]
allTips == tips.active \o tips.archived

\* active.map(tip => this.issueToTip(tip))
decodeTips(fetched) == [i \in 1..Len(fetched) |-> issueToTip(fetched[i])]

\* a request of the workshop and the two queries of the fetchTips after it
TipCall(op, id, number, method, req, stage) ==
    [k        |-> FreeSlot,
     op       |-> op,
     id       |-> id,
     number   |-> number,
     method   |-> method,
     req      |-> req,
     resp     |-> "pending",
     stage    |-> stage,
     active   |-> Query,
     archived |-> Query]

\* switchView('workshop'): this.fetchTips().then(() => this.renderTips())
switchViewWorkshop ==
    /\ Cardinality(inflight) < MaxInflight
    /\ inflight' = inflight \cup {TipCall("fetchTips", "", 0, "GET", <<>>, "fetch")}
    /\ last' = Call("fetchTips", "", "pending")
    /\ Counted
    /\ UNCHANGED <<page, issues, cards, counts, server, tips, ui>>

\* openTipModal: the New TIP button (no id) or the Edit button of a tip
openTipModal(tipId) ==
    /\ ui' = IF tipId = ""
             THEN [ui EXCEPT !.currentTipId = "", !.tipModal = TRUE]
             ELSE IF findIndex(allTips, tipId) = 0 THEN ui
             ELSE [ui EXCEPT !.currentTipId = tipId, !.tipModal = TRUE]
    /\ UNCHANGED <<page, issues, cards, counts, server, tips, inflight, last, calls>>

\* closeTipModal
closeTipModal(u) == [u EXCEPT !.tipModal = FALSE, !.currentTipId = ""]

\* the cancel and close buttons of the tip modal
cancelTip ==
    /\ ui.tipModal
    /\ ui' = closeTipModal(ui)
    /\ UNCHANGED <<page, issues, cards, counts, server, tips, inflight, last, calls>>

\* handleTipFormSubmit, up to its first await: a new tip is posted with the
\* label tip, an existing one has its title and body patched
handleTipFormSubmit(form) ==
    LET tipData == tipDataOf(form)
        index == findIndex(allTips, ui.currentTipId)
        call == IF ui.currentTipId = ""
                THEN TipCall("handleTipFormSubmit", "", 0, "POST",
                             [title |-> tipData.title, body |-> tipBody(tipData),
                              labels |-> {"tip"}], "request")
                ELSE IF index = 0
                THEN TipCall("handleTipFormSubmit", ui.currentTipId, 0, "GET",
                             <<>>, "fetch")
                ELSE TipCall("handleTipFormSubmit", ui.currentTipId,
                             allTips[index].issueNumber, "PATCH",
                             [title |-> tipData.title, body |-> tipBody(tipData)],
                             "request")
    IN  /\ ui.tipModal
        /\ Truthy(tipData.title)
        /\ Cardinality(inflight) < MaxInflight
        /\ ui.currentTipId = "" => Len(server) + Cardinality(PendingCreates) < MaxIssues
        /\ inflight' = inflight \cup {call}
        /\ ui' = showLoading(ui, TRUE)
        /\ last' = Call("handleTipFormSubmit", ui.currentTipId, "pending")
        /\ Counted
        /\ UNCHANGED <<page, issues, cards, counts, server, tips>>

\* deleteTip, up to its await
deleteTip ==
    LET index == findIndex(allTips, ui.currentTipId)
    IN  /\ Truthy(ui.currentTipId)
        /\ IF index = 0
           THEN /\ last' = Call("deleteTip", ui.currentTipId, "undefined")
                /\ UNCHANGED <<inflight, ui>>
           ELSE /\ Cardinality(inflight) < MaxInflight
                /\ inflight' = inflight \cup
                       {TipCall("deleteTip", ui.currentTipId,
                                allTips[index].issueNumber, "PATCH",
                                [state |-> "closed", labels |-> {"deleted"}],
                                "request")}
                /\ ui' = showLoading(ui, TRUE)
                /\ last' = Call("deleteTip", ui.currentTipId, "pending")
        /\ Counted
        /\ UNCHANGED <<page, issues, cards, counts, server, tips>>

\* convertTipToTask, up to its await: the pre-population of the task form is
\* left to a timer, the archive request is sent at once
convertTipToTask(tipId) ==
    LET index == findIndex(tips.active, tipId)
    IN  IF index = 0
        THEN /\ last' = Call("convertTipToTask", tipId, "undefined")
             /\ Counted
             /\ UNCHANGED <<page, issues, cards, counts, server, tips, inflight, ui>>
        ELSE /\ Cardinality(inflight) < MaxInflight
             /\ ui.timer = <<>>
             /\ inflight' = inflight \cup
                    {TipCall("convertTipToTask", tipId, tips.active[index].issueNumber,
                             "PATCH", [labels |-> {"tip-archived"}], "request")}
             /\ ui' = [ui EXCEPT !.timer = tips.active[index]]
             /\ last' = Call("convertTipToTask", tipId, "pending")
             /\ Counted
             /\ UNCHANGED <<page, issues, cards, counts, server, tips>>

\* the setTimeout callback of convertTipToTask: openModal(null, 'todo'), then
\* the form takes the tip's title and description
prefillTimer ==
    /\ ui.timer # <<>>
    /\ ui' = [ui EXCEPT !.timer = <<>>, !.modal = TRUE, !.currentTaskId = "",
                        !.form = "", !.prefill = ui.timer]
    /\ UNCHANGED <<page, issues, cards, counts, server, tips, inflight, last, calls>>

\* parseInt of a complexity
parseInt(c) == CHOOSE n \in 0..99 : toString(n) = c

\* the task form as convertTipToTask pre-populates it, submitted unchanged
PrefilledTask(tip) ==
    [title       |-> tip.title,
     description |-> tip.description
                         \o <<"\n", "\n", "---", "\n", ConvertedFrom(tip.url)>>,
     assignee    |-> "",
     dueDate     |-> "",
     priority    |-> IF ~Truthy(tip.complexity) THEN "medium"
                     ELSE IF parseInt(tip.complexity) <= 3 THEN "low"
                     ELSE IF parseInt(tip.complexity) <= 8 THEN "medium"
                     ELSE "high",
     status      |-> "todo"]

\* the cancel and close buttons of the task modal, and the Escape key
cancelTask ==
    /\ ui' = closeModal(ui)
    /\ UNCHANGED <<page, issues, cards, counts, server, tips, inflight, last, calls>>

\* the task form is submitted from the open modal: handleFormSubmit updates
\* the task of this.currentTaskId, or creates one when there is none
handleFormSubmit(taskData) ==
    /\ ui.modal
    /\ IF Truthy(ui.currentTaskId)
       THEN updateTask(ui.currentTaskId, taskData)
       ELSE createTask(IF ui.prefill = <<>> THEN taskData ELSE PrefilledTask(ui.prefill))

\* the tracker answers the request of a workshop call
answerTip(r) ==
    /\ r.op \in {"handleTipFormSubmit", "deleteTip", "convertTipToTask"}
    /\ r.stage = "request"
    /\ r.resp = "pending"
    /\ \/ /\ r.method = "POST"
          /\ server' = Append(server, createIssue(r.req))
          /\ inflight' = (inflight \ {r}) \cup {[r EXCEPT !.resp = "200"]}
       \/ /\ r.method = "PATCH"
          /\ server' = [server EXCEPT ![r.number] = patchIssue(@, r.req)]
          /\ inflight' = (inflight \ {r}) \cup {[r EXCEPT !.resp = "200"]}
       \/ /\ \E status \in Failures :
                 inflight' = (inflight \ {r}) \cup {[r EXCEPT !.resp = status]}
          /\ server' = server
    /\ UNCHANGED <<page, issues, cards, counts, tips, ui, last, calls>>

\* what a workshop call leaves when it ends: the tip form and deleteTip catch,
\* report and hide the loader, and close the tip modal when nothing was
\* thrown; convertTipToTask only logs; the view switch has no handler
tipCallEnds(u, op, threw) ==
    IF op \in {"handleTipFormSubmit", "deleteTip"}
    THEN showLoading(IF threw THEN u ELSE closeTipModal(u), FALSE)
    ELSE u

\* what the user is shown when a workshop call throws
tipThrown(op, id) ==
    [Call(op, id, "error") EXCEPT
        !.shown = IF op \in {"handleTipFormSubmit", "deleteTip"} THEN "alert"
                  ELSE "none"]

\* a workshop call after the await of its request: fetchTips is started, or
\* the rejection is caught
tipRequestDone(r) ==
    /\ r.op \in {"handleTipFormSubmit", "deleteTip", "convertTipToTask"}
    /\ r.stage = "request"
    /\ r.resp # "pending"
    /\ IF responseOk(r)
       THEN /\ inflight' = (inflight \ {r}) \cup {[r EXCEPT !.stage = "fetch"]}
            /\ UNCHANGED <<ui, last>>
       ELSE /\ inflight' = inflight \ {r}
            /\ ui' = tipCallEnds(ui, r.op, TRUE)
            /\ last' = tipThrown(r.op, r.id)
    /\ UNCHANGED <<page, issues, cards, counts, server, tips, calls>>

\* the tracker answers one of the two queries of fetchTips
answerTipQuery(r) ==
    /\ r.op \in {"handleTipFormSubmit", "deleteTip", "convertTipToTask", "fetchTips"}
    /\ r.stage = "fetch"
    /\ \/ /\ r.active.resp = "pending"
          /\ \/ inflight' = (inflight \ {r}) \cup
                    {[r EXCEPT !.active =
                        \* GET /issues?labels=tip&state=open&per_page=100
                        [resp |-> "200",
                         result |-> firstPage(SelectSeq(newestFirst(server),
                                        LAMBDA i : i.state = "open"
                                                   /\ "tip" \in i.labels))]]}
             \/ \E status \in Failures :
                    inflight' = (inflight \ {r}) \cup
                        {[r EXCEPT !.active = [resp |-> status, result |-> <<>>]]}
       \/ /\ r.archived.resp = "pending"
          /\ \/ inflight' = (inflight \ {r}) \cup
                    {[r EXCEPT !.archived =
                        \* GET /issues?labels=tip-archived&state=all&per_page=100
                        [resp |-> "200",
                         result |-> firstPage(SelectSeq(newestFirst(server),
                                        LAMBDA i : "tip-archived" \in i.labels))]]}
             \/ \E status \in Failures :
                    inflight' = (inflight \ {r}) \cup
                        {[r EXCEPT !.archived = [resp |-> status, result |-> <<>>]]}
    /\ UNCHANGED <<page, issues, cards, counts, server, tips, ui, last, calls>>

\* fetchTips after its await, and the rest of the call that awaited it
fetchTipsDone(r) ==
    /\ r.op \in {"handleTipFormSubmit", "deleteTip", "convertTipToTask", "fetchTips"}
    /\ r.stage = "fetch"
    /\ \/ r.active.resp \in Failures
       \/ r.archived.resp \in Failures
       \/ r.active.resp = "200" /\ r.archived.resp = "200"
    /\ inflight' = inflight \ {r}
    /\ IF r.active.resp = "200" /\ r.archived.resp = "200"
       THEN /\ tips' = [active   |-> decodeTips(r.active.result),
                        archived |-> decodeTips(r.archived.result)]
            /\ ui' = tipCallEnds(ui, r.op, FALSE)
            /\ last' = Call(r.op, r.id, "ok")
       ELSE /\ tips' = tips
            /\ ui' = tipCallEnds(ui, r.op, TRUE)
            /\ last' = tipThrown(r.op, r.id)
    /\ UNCHANGED <<page, issues, cards, counts, server, calls>>

\* the tracker's and the continuations' steps of the workshop
TipCompletion ==
    \/ \E r \in inflight : answerTip(r)
    \/ \E r \in inflight : tipRequestDone(r)
    \/ \E r \in inflight : answerTipQuery(r)
    \/ \E r \in inflight : fetchTipsDone(r)

\* the page opened with a token on a repository with or without a tip
\* somebody filed before
InitTips ==
    /\ variant = "api"
    /\ input = <<>>
    /\ output = <<>>
    /\ tasks = <<>>
    /\ storage = <<>>
    /\ now = 1
    /\ issues = <<>>
    /\ cards = NoCards
    /\ counts = NoCounts
    /\ server \in {<<>>,
                   <<[number |-> 1, title |-> "t",
                      body |-> <<ComplexityMarker("13"), "\n", "\n", "x">>,
                      labels |-> {"tip"}, state |-> "open", pull_request |-> FALSE]>>}
    /\ inflight = {}
    /\ tips = NoTips
    /\ ui = NoUi
    /\ last = NoCall
    /\ calls = 0
    /\ auth = SignedIn

\* a call can be started: none is awaited and fewer than MaxCalls were made
CanCall == Idle /\ calls < MaxCalls

\* the board and the workshop, every call running to completion before the
\* next starts
NextTips ==
    \/ CanCall /\ switchViewWorkshop
    \/ Idle /\ \E id \in {""} \cup IssueIds : openTipModal(id)
    \/ Idle /\ cancelTip
    \/ /\ CanCall
       /\ \E form \in [title : {"t"}, description : {<<"x">>},
                        complexity : {"", "13"}, references : {NoText}] :
              handleTipFormSubmit(form)
    \/ CanCall /\ deleteTip
    \/ CanCall /\ \E id \in IssueIds : convertTipToTask(id)
    \/ prefillTimer
    \/ Idle /\ ui.modal /\ cancelTask
    \/ CanCall /\ \E d \in TaskData : handleFormSubmit(d)
    \/ CanCall /\ refresh
    \/ TipCompletion
    \/ \E r \in inflight : answer(r)
    \/ \E r \in inflight : answerQuery(r)
    \/ \E r \in inflight : createTaskDone(r)
    \/ \E r \in inflight : refreshDone(r)

SpecTips == InitTips /\ [][NextTips]_vars

\* the page opened on such a workshop
InitTipPages ==
    /\ variant = "api"
    /\ input = <<>>
    /\ output = <<>>
    /\ tasks = <<>>
    /\ storage = <<>>
    /\ now = 1
    /\ issues = <<>>
    /\ cards = NoCards
    /\ counts = NoCounts
    /\ \E n \in StoreSizes \ {0} :
           \* a workshop in long use: the oldest tip is still active, every
           \* later one was archived
           server = [i \in 1..n |->
                        [number |-> i, title |-> "t", body |-> NoText,
                         labels |-> {IF i = 1 THEN "tip" ELSE "tip-archived"},
                         state |-> "open", pull_request |-> FALSE]]
    /\ inflight = {}
    /\ tips = NoTips
    /\ ui = NoUi
    /\ last = NoCall
    /\ calls = 0
    /\ auth = SignedIn

\* the workshop is opened and tips are converted, one call at a time
NextTipPages ==
    \/ CanCall /\ switchViewWorkshop
    \/ CanCall /\ \E id \in IssueIds : convertTipToTask(id)
    \/ prefillTimer
    \/ TipCompletion

SpecTipPages == InitTipPages /\ [][NextTipPages]_vars

-----------------------------------------------------------------------------
(* The task modal, src/unnamed/part_001 *)

\* openModal(taskId) for a card that was clicked, up to its await: the form
\* is reset, then filled from the task, and the comments are asked for
openModal(taskId) ==
    LET index == findIndex(issues, taskId)
    IN  /\ ~findThrows(issues, taskId)
        /\ IF index = 0
           THEN /\ ui' = [ui EXCEPT !.form = "", !.prefill = <<>>]
                /\ inflight' = inflight
           ELSE /\ Cardinality(inflight) < MaxInflight
                /\ ui' = [ui EXCEPT !.form = taskId, !.prefill = <<>>,
                                    !.currentTaskId = taskId]
                /\ inflight' = inflight \cup
                       {[k |-> FreeSlot, op |-> "openModal", id |-> taskId,
                         number |-> issues[index].issueNumber, resp |-> "pending"]}
        /\ UNCHANGED <<page, issues, cards, counts, server, tips, last, calls>>

\* openModal(null, 'todo'): the create-task button
openModalNew ==
    /\ ui' = [ui EXCEPT !.form = "", !.prefill = <<>>, !.currentTaskId = "",
                        !.modal = TRUE]
    /\ UNCHANGED <<page, issues, cards, counts, server, tips, inflight, last, calls>>

\* the tracker answers the comments and events of loadCommentsAndActivity
answerComments(r) ==
    /\ r.op = "openModal"
    /\ r.resp = "pending"
    /\ \E status \in {"200"} \cup Failures :
           inflight' = (inflight \ {r}) \cup {[r EXCEPT !.resp = status]}
    /\ UNCHANGED <<page, issues, cards, counts, server, tips, ui, last, calls>>

\* openModal after its await: loadCommentsAndActivity has caught whatever
\* failed, and the modal is shown
openModalDone(r) ==
    /\ r.op = "openModal"
    /\ r.resp # "pending"
    /\ inflight' = inflight \ {r}
    /\ ui' = [ui EXCEPT !.modal = TRUE]
    /\ UNCHANGED <<page, issues, cards, counts, server, tips, last, calls>>

\* the board with its modal: a card of the board is clicked, the modal is
\* closed with Escape at any time, the form is submitted while no board call
\* is awaited (an openModal may be)
NextModal ==
    \/ calls = 0 /\ refresh
    \/ \E i \in 1..Len(issues) : ~IsHole(issues[i]) /\ openModal(issues[i].id)
    \/ openModalNew
    \/ cancelTask
    \/ /\ \A r \in inflight : r.op = "openModal"
       /\ calls < MaxCalls
       /\ \E d \in TaskData : handleFormSubmit(d)
    \/ \E r \in inflight : answerComments(r)
    \/ \E r \in inflight : openModalDone(r)
    \/ \E r \in inflight : answer(r)
    \/ \E r \in inflight : answerQuery(r)
    \/ \E r \in inflight : createTaskDone(r)
    \/ \E r \in inflight : updateTaskDone(r)
    \/ \E r \in inflight : refreshDone(r)

SpecModal == InitApi /\ [][NextModal]_vars

-----------------------------------------------------------------------------
(* The tip codec on its own: a tip form is encoded and decoded again *)

\* the tip forms handed to the codec: a description of up to MaxLen
\* characters, and a references field of no line, one line or two
TipCodecForms ==
    LET TipChars == {"x", "\n", "http://a"}
        TipDescriptions ==
            {t \in UNION {[1..n -> TipChars] : n \in 0..MaxLen} : trim(t) = t}
        ReferenceLines == {<<"x">>, <<"http://a">>, <<"https://b">>}
        ReferenceLists == UNION {[1..n -> ReferenceLines] : n \in 0..2}
    IN  {[title |-> "t", description |-> d, complexity |-> c,
          references |-> join(refs)] :
            d \in TipDescriptions, c \in {""} \cup Complexities,
            refs \in ReferenceLists}

\* handleTipFormSubmit builds the issue it posts
tipEncode ==
    /\ variant = "tipcodec"
    /\ output = <<>>
    /\ output' = [number |-> 1, title |-> tipDataOf(input).title,
                  body |-> tipBody(tipDataOf(input)), labels |-> {"tip"},
                  state |-> "open", pull_request |-> FALSE]
    /\ UNCHANGED <<tips, ui, variant, input, auth, tasks, storage, now, issues, cards,
                   counts, server, inflight, last, calls>>

\* issueToTip applied to the issue
tipDecode ==
    /\ variant = "tipcodec"
    /\ output # <<>>
    /\ "body" \in DOMAIN output
    /\ output' = issueToTip(output)
    /\ UNCHANGED <<tips, ui, variant, input, auth, tasks, storage, now, issues, cards,
                   counts, server, inflight, last, calls>>

InitTipCodec ==
    /\ variant = "tipcodec"
    /\ input \in TipCodecForms
    /\ output = <<>>
    /\ tasks = <<>>
    /\ storage = <<>>
    /\ now = 1
    /\ issues = <<>>
    /\ cards = NoCards
    /\ counts = NoCounts
    /\ server = <<>>
    /\ inflight = {}
    /\ tips = NoTips
    /\ ui = NoUi
    /\ last = NoCall
    /\ calls = 0
    /\ auth = SignedIn

NextTipCodec == tipEncode \/ tipDecode

SpecTipCodec == InitTipCodec /\ [][NextTipCodec]_vars

-----------------------------------------------------------------------------
(* Properties *)

\* the collection the variant renders from
Collection == IF variant = "offline" THEN tasks ELSE issues

\* the records of a list (its empty slots left out)
Records(list) == {list[i] : i \in {j \in 1..Len(list) : ~IsHole(list[j])}}

HasId(list, id) == \E t \in Records(list) : t.id = id

\* the columns that hold a card of that id, one entry per card
CardsOf(id) ==
    {<<s, i>> \in StatusSet \X (1..MaxCards + MaxIssues + MaxCalls) :
        i <= Len(cards[s]) /\ cards[s][i].id = id}

\* C1: Count consistency.  After any sequence of calls that each ran to
\* completion, in the offline and in the API-backed variant, the count shown
\* on every column is the number of records of the collection with that status.
C1_CountConsistency ==
    Idle => \A s \in StatusSet : counts[s] = CountOf(Collection, s)

\* C1, API-backed variant alone
C1_CountConsistencyApi == variant = "api" => C1_CountConsistency

\* C2: Card placement.  After any sequence of completed calls every record has
\* exactly one card, that card is in the column of the record's status, and no
\* card exists for an id absent from the collection.
C2_CardPlacement ==
    Idle =>
        /\ \A t \in Records(Collection) :
              /\ Cardinality(CardsOf(t.id)) = 1
              /\ \A c \in CardsOf(t.id) : c[1] = t.status
        /\ \A s \in StatusSet : \A i \in 1..Len(cards[s]) :
              HasId(Collection, cards[s][i].id)

\* C2, API-backed variant alone
C2_CardPlacementApi == variant = "api" => C2_CardPlacement

\* C3: Id uniqueness.  In every reachable state no two records of the
\* in-memory collection have the same id.
C3_UniqueIds ==
    \A i, j \in 1..Len(Collection) :
        (i # j /\ ~IsHole(Collection[i]) /\ ~IsHole(Collection[j]))
            => Collection[i].id # Collection[j].id


\* a create or update call whose request has not succeeded (yet)
Unsuccessful(r) == r.op \in {"createTask", "updateTask"} /\ r.resp # "200"

\* C4: Failure atomicity of create and update.  From the start of a createTask
\* or updateTask call to the end of one whose request failed, no step changes
\* the collection, the cards or the counts: they are what they were before
\* the call.
C4_FailureAtomicity ==
    [][(\E r \in inflight \cup inflight' : Unsuccessful(r)) => UNCHANGED view]_vars

\* an update that would have moved a card has ended in a failure
C4_Witness ==
    /\ variant = "api"
    /\ last.op = "updateTask"
    /\ last.ret = "error"
    /\ HasId(issues, last.id)

\* the step on which a deleteTask call ends after its await
DeleteEnds(r) == r.op = "deleteTask" /\ r.resp # "pending" /\ r \notin inflight'

\* C5 as stated: deleteTask on a present id removes the record and its card
\* after issuing the request, even when the request fails.
C5_RemovesUnconditionally ==
    [][\A r \in inflight :
          DeleteEnds(r) => ~HasId(issues', r.id) /\ CardsOf(r.id)' = {}]_vars

\* C5: deleteTask on a present id removes the record and its card only when
\* its request succeeds; when the request fails the record stays and the
\* collection, the cards and the counts are unchanged.
C5_RemovesOnSuccessOnly ==
    [][\A r \in inflight :
          DeleteEnds(r) =>
              IF r.resp = "200"
              THEN ~HasId(issues', r.id) /\ CardsOf(r.id)' = {}
              ELSE HasId(issues', r.id) /\ UNCHANGED view]_vars

\* a delete has failed and its record is still there
C5_Witness ==
    /\ last.op = "deleteTask"
    /\ last.ret = "error"
    /\ HasId(issues, last.id)
    /\ CardsOf(last.id) # {}

\* a call of updateTask or deleteTask, made while nothing is awaited, with an
\* id that is absent from the collection
StaleCall ==
    /\ Idle
    /\ last' # last
    /\ last'.op \in {"updateTask", "deleteTask"}
    /\ ~HasId(Collection, last'.id)

\* C6: Stale reference is a no-op.  updateTask and deleteTask with an absent
\* id send no request, write nothing to storage, raise no error and leave the
\* collection, the cards and the counts unchanged, however often repeated.
C6_StaleNoOp ==
    [][StaleCall =>
          /\ last'.ret \in {"null", "undefined"}
          /\ UNCHANGED <<tasks, storage, issues, cards, counts, server, inflight>>]_vars

\* an absent id was used while the collection held something else
C6_Witness ==
    /\ last.op \in {"updateTask", "deleteTask"}
    /\ last.ret \in {"null", "undefined"}
    /\ Len(Collection) > 0

\* C7: Done means externally closed.  In the API-backed variant, once the
\* calls have completed, the issue of every record is closed if the record's
\* status is done and open otherwise, also for a task created as done.
C7_DoneMeansClosed ==
    (variant = "api" /\ Idle) =>
        \A t \in Records(issues) :
            server[t.issueNumber].state = "closed" <=> t.status = "done"

\* the status of the record an update merges
MergedStatus(r) ==
    IF "status" \in DOMAIN r.updates THEN r.updates.status ELSE r.oldTask.status

\* C8: Close and reopen on update.  Every request of updateTask carries state
\* closed exactly when the merged record is done and open otherwise, and the
\* tracker, having accepted it, holds the issue in that state.
C8_CloseAndReopen ==
    \A r \in inflight :
        r.op = "updateTask" =>
            /\ r.req.state = (IF MergedStatus(r) = "done" THEN "closed" ELSE "open")
            /\ r.resp = "200" => server[r.number].state = r.req.state

\* a done task was moved back and the tracker has reopened its issue
C8_Witness ==
    \E r \in inflight :
        /\ r.op = "updateTask"
        /\ r.oldTask.status = "done"
        /\ r.resp = "200"
        /\ server[r.number].state = "open"

\* the list without the records of that id
Without(list, id) == SelectSeq(list, LAMBDA t : t.id # id)

\* C9: Delete effect.  A deleteTask whose request succeeded has sent state
\* closed with the labels replaced by exactly {deleted}; when it ends the
\* record is absent, its card is gone, the count of its former column is
\* recomputed, and every other record, card and count is unchanged.
C9_DeleteEffect ==
    [][\A r \in inflight :
          (DeleteEnds(r) /\ r.resp = "200") =>
              /\ r.req = [state |-> "closed", labels |-> {"deleted"}]
              /\ server[r.number].state = "closed"
              /\ server[r.number].labels = {"deleted"}
              /\ issues' = Without(issues, r.id)
              /\ ~HasId(issues', r.id)
              /\ \A s \in StatusSet : cards'[s] = Without(cards[s], r.id)
              /\ counts'[r.task.status] = CountOf(issues', r.task.status)
              /\ \A s \in StatusSet \ {r.task.status} : counts'[s] = counts[s]]_vars

\* a delete has succeeded and another record is still on the board
C9_Witness ==
    /\ last.op = "deleteTask"
    /\ last.ret = "ok"
    /\ Len(issues) > 0
    /\ ~HasId(issues, last.id)

\* C10: Status decode precedence.  For every label set and issue state,
\* issueToTask yields done if the label done is present or the issue is
\* closed, otherwise in-progress if that label is present, otherwise todo.
C10_StatusPrecedence ==
    (variant = "codec" /\ output # <<>>) =>
        /\ ("done" \in input.labels \/ input.state = "closed")
              => output.status = "done"
        /\ ("done" \notin input.labels /\ input.state = "open"
                /\ "in-progress" \in input.labels)
              => output.status = "in-progress"
        /\ ("done" \notin input.labels /\ input.state = "open"
                /\ "in-progress" \notin input.labels)
              => output.status = "todo"

\* an open issue labelled both todo and in-progress has been decoded
C10_Witness ==
    /\ variant = "codec"
    /\ output # <<>>
    /\ {"todo", "in-progress"} \subseteq input.labels
    /\ "done" \notin input.labels
    /\ input.state = "open"
    /\ output.status = "in-progress"

\* C11: Priority and assignee decode.  For every label set issueToTask
\* yields priority high if priority:high is present, else low if priority:low
\* is present, else medium; and assignee sam if assigned:sam is present, else
\* milo if assigned:milo is present, else none.
C11_PriorityAssigneeDecode ==
    (variant = "codec" /\ output # <<>>) =>
        /\ "priority:high" \in input.labels => output.priority = "high"
        /\ ("priority:high" \notin input.labels /\ "priority:low" \in input.labels)
              => output.priority = "low"
        /\ ("priority:high" \notin input.labels /\ "priority:low" \notin input.labels)
              => output.priority = "medium"
        /\ "assigned:sam" \in input.labels => output.assignee = "sam"
        /\ ("assigned:sam" \notin input.labels /\ "assigned:milo" \in input.labels)
              => output.assignee = "milo"
        /\ ("assigned:sam" \notin input.labels /\ "assigned:milo" \notin input.labels)
              => output.assignee = ""

\* an issue carrying both priorities and both assignees has been decoded
C11_Witness ==
    /\ variant = "codec"
    /\ output # <<>>
    /\ {"priority:high", "priority:low", "assigned:sam", "assigned:milo"}
           \subseteq input.labels
    /\ output.priority = "high"
    /\ output.assignee = "sam"

\* the fields of a task that the codec carries
CodecFields == {"title", "description", "assignee", "dueDate", "priority", "status"}

\* C12: Task codec round-trip.  For every valid task record, decoding with
\* issueToTask the labels of getLabelsForTask and the body of taskToIssueBody
\* reproduces title, description, assignee, dueDate, priority and status.
C12_RoundTrip ==
    (variant = "roundtrip" /\ output # <<>>) =>
        \A f \in CodecFields : output[f] = input[f]

\* a record with every optional field set and a description of several
\* characters has made the round trip
C12_Witness ==
    /\ variant = "roundtrip"
    /\ output # <<>>
    /\ input.dueDate = "2025-12-31"
    /\ input.description = <<"x", "\n", "x">>
    /\ input.assignee = "milo"
    /\ input.priority = "low"
    /\ input.status = "in-progress"
    /\ output.description = input.description

\* the input is a description, a blank line and one marker line
IsMarkerBody(body) ==
    \E t \in Descriptions, d \in Dates : body = MarkerBody(t, d)

RefreshEnds(r) ==
    /\ r.op = "refresh"
    /\ r.open.resp = "200"
    /\ r.closed.resp = "200"
    /\ r \notin inflight'

\* what the two queries of a refresh returned, open items first
Fetched(r) == r.open.result \o r.closed.result

\* C14: Pull-request exclusion.  After fetchIssues no record of the collection
\* corresponds to a fetched item with the pull-request discriminator, wherever
\* the item stood in either list, and every fetched item without it is kept.
C14_PullRequestExclusion ==
    [][\A r \in inflight :
          RefreshEnds(r) =>
              /\ \A i \in 1..Len(Fetched(r)) :
                    Fetched(r)[i].pull_request
                        <=> ~HasId(issues', toString(Fetched(r)[i].number))
              /\ Len(issues') =
                    Cardinality({i \in 1..Len(Fetched(r)) :
                                    ~Fetched(r)[i].pull_request})]_vars

\* a refresh has met a pull request listed after an issue and kept the issue
C14_Witness ==
    /\ last.op = "refresh"
    /\ last.ret = "ok"
    /\ Len(listOpen) = 2
    /\ listOpen[2].pull_request
    /\ Len(issues) = 1
    /\ issues[1].id = toString(listOpen[1].number)

\* the items of a fetched list that are no pull requests, decoded in order
DecodedTasks(list) ==
    LET kept == SelectSeq(list, LAMBDA i : ~i.pull_request)
    IN  [i \in 1..Len(kept) |-> issueToTask(kept[i])]

\* the cards of a column when the column shows exactly these records in order
ColumnOf(list, status) ==
    LET shown == SelectSeq(list, LAMBDA t : t.status = status)
    IN  [i \in 1..Len(shown) |-> [id |-> shown[i].id, shows |-> shown[i]]]

\* the step on which a refresh ends because one of its queries failed
RefreshFails(r) ==
    /\ r.op = "refresh"
    /\ r.open.resp \in Failures \/ r.closed.resp \in Failures
    /\ \A q \in inflight' : q.k # r.k

\* C15: Refresh replaces the collection.  After a successful refresh the
\* collection is the decoded non-PR open items followed by the decoded non-PR
\* closed items labelled done, in fetch order, whatever it held before; the
\* cards of each column are in that order and all three counts are recomputed.
\* If either query fails the collection is left as it was.
C15_RefreshReplaces ==
    [][\A r \in inflight :
          /\ RefreshEnds(r) =>
                /\ issues' = DecodedTasks(r.open.result) \o DecodedTasks(r.closed.result)
                /\ \A s \in StatusSet :
                      /\ cards'[s] = ColumnOf(issues', s)
                      /\ counts'[s] = CountOf(issues', s)
          /\ RefreshFails(r) => issues' = issues]_vars

\* a refresh has put an open issue before an older closed one
C15_Witness ==
    /\ last.op = "refresh"
    /\ last.ret = "ok"
    /\ Len(issues) = 2
    /\ issues[1].issueNumber > issues[2].issueNumber
    /\ server[issues[1].issueNumber].state = "open"
    /\ server[issues[2].issueNumber].state = "closed"
    /\ Len(cards["done"]) = 1

\* the issues of the store that are tasks of the board
BoardIssues ==
    {i \in 1..Len(server) :
        /\ ~server[i].pull_request
        /\ \/ server[i].state = "open"
           \/ server[i].state = "closed" /\ "done" \in server[i].labels}

\* C16: Refresh merges paginated queries completely.  After a successful
\* refresh every open non-PR issue and every closed non-PR issue labelled done
\* of the external store is in the collection, also when a query has more
\* items than one page of 100.
C16_RefreshComplete ==
    (Idle /\ last.op = "refresh" /\ last.ret = "ok") =>
        \A i \in BoardIssues : HasId(issues, toString(server[i].number))

\* the step on which the constructor runs init with no token stored
UnauthenticatedStart == ~auth.started /\ auth'.started /\ ~auth.stored

\* C17: Unauthenticated start.  While no credential is stored, init shows the
\* credential prompt, sends no request, registers no board listeners, leaves
\* the collection empty and does not throw.
C17_UnauthenticatedStart ==
    /\ [][UnauthenticatedStart =>
             /\ auth'.prompt
             /\ inflight' = {}
             /\ ~auth'.listeners
             /\ issues' = <<>>
             /\ last'.op = "init"
             /\ last'.ret = "undefined"]_vars
    /\ []((auth.started /\ ~auth.token) =>
             /\ inflight = {}
             /\ ~auth.listeners
             /\ issues = <<>>)

\* the page was opened without a token and shows the prompt
C17_Witness ==
    /\ auth.started
    /\ ~auth.stored
    /\ ~auth.token
    /\ auth.prompt
    /\ last.op = "init"
    /\ Len(server) > 0

\* the step on which a call ends, whatever it was
CallEnds(r) == \A q \in inflight' : q.k # r.k

\* the statuses with which the requests of a call were rejected
Rejections(r) ==
    IF r.op \in {"refresh", "init"}
    THEN {r.open.resp, r.closed.resp} \cap Failures
    ELSE {r.resp} \cap Failures

\* C18: Auth expiry.  Whenever a collaborator call fails with 401 or 403,
\* during the initial load or a later create, update, delete or refresh, the
\* stored credential is invalidated and the credential prompt is shown; a
\* failure with another status leaves the credential and shows no prompt.
C18_AuthExpiry ==
    [][\A r \in inflight :
          (CallEnds(r) /\ Rejections(r) # {}) =>
              /\ Rejections(r) \subseteq AuthFailures =>
                    ~auth'.stored /\ auth'.prompt
              /\ Rejections(r) \cap AuthFailures = {} =>
                    auth'.stored = auth.stored /\ auth'.prompt = auth.prompt]_vars

\* the calls the user starts from the board
UserInitiated == {"createTask", "updateTask", "deleteTask", "refresh"}

\* C19: Failures are reported.  Every collaborator-call failure during a
\* user-initiated action (form submit, drag-and-drop status change, delete
\* button, refresh button) reaches the action's handler and produces a
\* user-visible report, an error message or the credential prompt.
C19_FailuresReported ==
    [][\A r \in inflight :
          (r.op \in UserInitiated /\ CallEnds(r) /\ Rejections(r) # {}) =>
              last'.shown \in {"alert", "prompt"}]_vars

\* new is old with exactly the fields named in updates replaced
IsShallowMerge(new, old, updates) ==
    /\ DOMAIN new = DOMAIN old \cup DOMAIN updates
    /\ \A f \in DOMAIN updates : new[f] = updates[f]
    /\ \A f \in DOMAIN old \ DOMAIN updates : new[f] = old[f]

\* the list is the old one but for the record at index
OnlyChangedAt(new, old, index) ==
    /\ Len(new) = Len(old)
    /\ \A i \in 1..Len(old) : i # index => new[i] = old[i]

\* the labels of a record: its status, its assignee if any, its priority
FullLabels(t) ==
    {t.status, "priority:" \o t.priority}
        \cup (IF t.assignee = "" THEN {} ELSE {"assigned:" \o t.assignee})

\* the step on which an updateTask ends after its request succeeded
UpdateEnds(r) == r.op = "updateTask" /\ r.resp = "200" /\ r \notin inflight'

\* the step of a successful updateTask of the offline variant
OfflineUpdate ==
    /\ variant = "offline"
    /\ last' # last \/ tasks' # tasks
    /\ last'.op = "updateTask"
    /\ last'.ret = "ok"

\* C20: Shallow merge, full send.  A successful updateTask commits the old
\* record with exactly the fields named in updates replaced, every omitted
\* field (id, createdAt, external number, URL among them) preserved; its
\* request carries the title, the body and the complete label set of the
\* merged record; records of other ids are unchanged.
C20_ShallowMergeFullSend ==
    [][/\ \A r \in inflight :
             UpdateEnds(r) =>
                 LET index == findIndex(issues, r.id)
                     old == issues[index]
                     new == issues'[index]
                 IN  /\ IsShallowMerge(new, old, r.updates)
                     /\ OnlyChangedAt(issues', issues, index)
                     /\ r.req.title = new.title
                     /\ r.req.body = taskToIssueBody(new)
                     /\ r.req.labels = FullLabels(new)
       /\ OfflineUpdate =>
             LET index == findIndex(tasks, last'.id)
             IN  /\ \E u \in Updates : IsShallowMerge(tasks'[index], tasks[index], u)
                 /\ OnlyChangedAt(tasks', tasks, index)
                 /\ parse(storage') = tasks']_vars

\* a drop has moved the task that had an assignee, a priority and a due
\* date, and the tracker holds all of them still
C20_Witness ==
    /\ last.op = "updateTask"
    /\ last.ret = "ok"
    /\ Len(issues) = 2
    /\ \E i \in 1..2 :
          /\ issues[i].id = last.id
          /\ issues[i].assignee = "sam"
          /\ issues[i].dueDate = "2024-03-01"
          /\ issues[i].status = "done"
          /\ server[issues[i].issueNumber].labels = {"done", "assigned:sam", "priority:high"}
          /\ server[issues[i].issueNumber].state = "closed"

\* the ids of the tips of a list
TipIds(list) == {list[i].id : i \in 1..Len(list)}

\* an issue is an active tip, an archived tip, a deleted one
IsActiveTip(issue) == issue.state = "open" /\ "tip" \in issue.labels

IsArchivedTip(issue) == "tip-archived" \in issue.labels

IsDeleted(issue) == "deleted" \in issue.labels

\* the step on which a workshop call ends after its request and the re-fetch
\* that follows it both succeeded
TipCallEnds(r, op) ==
    /\ r.op = op
    /\ r.stage = "fetch"
    /\ r.active.resp = "200"
    /\ r.archived.resp = "200"
    /\ r \notin inflight'

\* C21: Tip lifecycle.  After a successful convertTipToTask on an active tip
\* and the re-fetch that follows, the tip is listed under archived and no
\* longer under active; after a successful deleteTip and re-fetch it is in
\* neither list; no operation moves an archived or deleted tip back to active.
C21_TipLifecycle ==
    [][/\ \A r \in inflight :
             TipCallEnds(r, "convertTipToTask") =>
                 /\ r.id \in TipIds(tips'.archived)
                 /\ r.id \notin TipIds(tips'.active)
       /\ \A r \in inflight :
             TipCallEnds(r, "deleteTip") =>
                 r.id \notin TipIds(tips'.active) \cup TipIds(tips'.archived)
       /\ \A n \in 1..Len(server) :
             IsArchivedTip(server[n]) \/ IsDeleted(server[n])
                 => ~IsActiveTip(server'[n])]_vars

\* C22: Tip codec round trip.  For every tip entered in the tip form (a
\* description, an optional integer complexity, an ordered list of non-empty
\* reference lines), issueToTip applied to the body handleTipFormSubmit built
\* gives back the description, the complexity and the references in the same
\* order.
C22_TipRoundTrip ==
    (variant = "tipcodec" /\ "references" \in DOMAIN output) =>
        /\ output.description = tipDataOf(input).description
        /\ output.complexity = tipDataOf(input).complexity
        /\ output.references = tipDataOf(input).references

\* C23: Count consistency under overlap.  In the API-backed variant, when two
\* updateTask calls on the same id were in flight together and both have
\* completed, every column's displayed count equals the number of in-memory
\* records with that status.
C23_CountsAfterOverlap ==
    (variant = "api" /\ Idle /\ last.op = "updateTask") =>
        \A s \in StatusSet : counts[s] = CountOf(issues, s)

\* C24: Update commits only its own record.  When the response of
\* updateTask(X) lands after a deleteTask or a refresh has changed the
\* collection, the commit changes no record of another id, drops no other
\* record and does not re-insert an id deleted while the update was in flight.
C24_CommitsOwnRecord ==
    [][\A r \in inflight :
          UpdateEnds(r) =>
              /\ \A t \in Records(issues) : t.id # r.id => t \in Records(issues')
              /\ ~HasId(issues, r.id) => ~HasId(issues', r.id)]_vars

\* the fields of a task that an update request carries to the tracker
SentFields == {"status", "assignee", "priority", "title", "dueDate"}

\* C25: Convergence with the external store.  Once every update request for a
\* record has completed successfully, the record's status, assignee,
\* priority, title and due date equal those of the external issue, also when
\* the responses land in another order than the requests were applied.
C25_Convergence ==
    (variant = "api" /\ Idle) =>
        \A t \in Records(issues) :
            \A f \in SentFields : t[f] = issueToTask(server[t.issueNumber])[f]

\* C26: Edit modal targets its task.  Whenever the task modal is active with
\* the form filled from an existing task X, currentTaskId equals X (so that
\* submitting calls updateTask(X) and never createTask), also when the modal
\* was closed or another card opened while openModal awaited the comments.
C26_ModalTargetsTask ==
    (ui.modal /\ ui.form # "") => ui.currentTaskId = ui.form

\* C27: Loading indicator is released.  In the API-backed variant, once a
\* user-initiated action that shows the loading indicator (form submit, drop,
\* delete button, refresh) has finished, whether its call succeeded or failed,
\* the loading indicator is eventually hidden again.
C27_LoaderReleased ==
    (variant = "api" /\ ui.loading) ~> ~ui.loading

\* the calls of the offline variant that change the collection
OfflineCalls == {"createTask", "updateTask", "deleteTask"}

\* C28: Offline persistence mirrors memory.  In the offline variant, after
\* every completed createTask, updateTask or deleteTask the value saved under
\* the storage key is the in-memory collection, so that loading it at the
\* next start gives the same records in the same order; a call with an
\* absent id writes nothing.
C28_StorageMirrorsMemory ==
    [][(variant = "offline" /\ last'.op \in OfflineCalls) =>
          IF last'.ret = "ok"
          THEN /\ storage' # NoItem
               /\ parse(storage') = tasks'
          ELSE storage' = storage]_vars

\* task 1 was deleted after task 2 was created, the saved list holds task 2
\* alone, and an updateTask of the absent id 1 has returned null
C28_Witness ==
    /\ variant = "offline"
    /\ last = Call("updateTask", "1", "null")
    /\ Len(tasks) = 1
    /\ tasks[1].id = "2"
    /\ storage # NoItem
    /\ parse(storage) = tasks

\* C29: Tips stay off the board.  In the tips variant, after any sequence of
\* tip creation, tip conversion and refresh, no record of the task collection
\* corresponds to an issue that is an active tip (label tip) or an archived
\* tip (label tip-archived).
C29_TipsOffBoard ==
    \A t \in Records(issues) :
        t.issueNumber \in 1..Len(server) =>
            /\ ~IsActiveTip(server[t.issueNumber])
            /\ ~IsArchivedTip(server[t.issueNumber])

\* the task was created from the pre-filled form of the tip of that number
CreatedFromTip(t, number) ==
    \E i \in 1..Len(t.description) : t.description[i] = ConvertedFrom(number)

\* C30: Archive follows conversion.  A tip becomes archived only as the result
\* of being converted into a task: once convertTipToTask has archived a tip
\* and the pre-filled task form has been submitted or dismissed, a task
\* created from that tip exists in the task collection.
C30_ArchiveFollowsConversion ==
    (Idle /\ ui.timer = <<>> /\ ~ui.modal) =>
        \A n \in 1..Len(server) :
            IsArchivedTip(server[n]) =>
                \E t \in Records(issues) : CreatedFromTip(t, n)

=============================================================================
